---- MODULE Spec2Model ----
(***************************************************************************)
(* Model of egui_json_tree's search (src/src/search.rs): SearchTerm::parse, *)
(* SearchTerm::matches, and the depth-first traversal search_impl driven by *)
(* SearchTerm::find_matching_paths_in, with update_matches.                 *)
(*                                                                         *)
(* Strings are sequences of one-character strings.  A tree is the          *)
(* JsonTreeValue the traversal sees: a Base leaf with its display string,  *)
(* or an Expandable with its ordered (property, val) entries and its       *)
(* ExpandableType.  The recursion of search_impl is an explicit call       *)
(* stack, one frame per active call.                                       *)
(***************************************************************************)
EXTENDS Integers, Sequences, FiniteSets, TLC

VARIABLES
    value,                  \* the root handed to find_matching_paths_in
    search_str,             \* the raw text handed to SearchTerm::parse
    other,                  \* the text handed to SearchTerm::matches (TermSpec)
    search_term,            \* Option<SearchTerm>: [some, str]
    matched,                \* result of SearchTerm::matches (TermSpec)
    abbreviate_root,        \* parameter of find_matching_paths_in
    idInjective,            \* which caller-supplied make_persistent_id is in use
    reset_in,               \* caller's reset_path_ids before the call
    reset_path_ids,         \* caller's reset_path_ids (mutated by the traversal)
    path_segments,          \* the shared path buffer
    search_match_path_ids,  \* the match-id accumulator
    stack,                  \* active calls of search_impl, innermost last
    result,                 \* the set find_matching_paths_in returns
    pc

vars == << value, search_str, other, search_term, matched, abbreviate_root,
           idInjective, reset_in, reset_path_ids, path_segments,
           search_match_path_ids, stack, result, pc >>

\* ------------------------------------------------------------------ bounds
\* Generated trees have at most MaxNodes nodes.
MaxNodes == 5
\* Strings handed to parse / matches have at most MaxStrLen characters.
MaxStrLen == 2

\* ----------------------------------------------------------------- strings
AsciiUpperLetters == << "A","B","C","D","E","F","G","H","I","J","K","L","M",
                        "N","O","P","Q","R","S","T","U","V","W","X","Y","Z" >>
AsciiLowerLetters == << "a","b","c","d","e","f","g","h","i","j","k","l","m",
                        "n","o","p","q","r","s","t","u","v","w","x","y","z" >>

\* u8::to_ascii_lowercase: 'A'..'Z' to 'a'..'z', every other character kept.
ToAsciiLowerChar(c) ==
    IF \E i \in 1..Len(AsciiUpperLetters) : AsciiUpperLetters[i] = c
    THEN AsciiLowerLetters[CHOOSE i \in 1..Len(AsciiUpperLetters) : AsciiUpperLetters[i] = c]
    ELSE c

\* u8::to_ascii_uppercase: 'a'..'z' to 'A'..'Z', every other character kept.
ToAsciiUpperChar(c) ==
    IF \E i \in 1..Len(AsciiLowerLetters) : AsciiLowerLetters[i] = c
    THEN AsciiUpperLetters[CHOOSE i \in 1..Len(AsciiLowerLetters) : AsciiLowerLetters[i] = c]
    ELSE c

\* str::to_ascii_lowercase
to_ascii_lowercase(s) == [i \in 1..Len(s) |-> ToAsciiLowerChar(s[i])]

\* str::to_ascii_uppercase
to_ascii_uppercase(s) == [i \in 1..Len(s) |-> ToAsciiUpperChar(s[i])]

\* Whether `pat` occurs in `text` starting at position `from` or later: a
\* left-to-right scan, as str::contains.
RECURSIVE ContainsFrom(_, _, _)
ContainsFrom(text, pat, from) ==
    IF from + Len(pat) - 1 > Len(text) THEN FALSE
    ELSE IF SubSeq(text, from, from + Len(pat) - 1) = pat THEN TRUE
    ELSE ContainsFrom(text, pat, from + 1)

\* str::contains
contains(text, pat) == ContainsFrom(text, pat, 1)

\* ------------------------------------------------------------- SearchTerm
None == [some |-> FALSE, str |-> << >>]
Some(s) == [some |-> TRUE, str |-> s]

\* Mutant: a validity test that also rejects strings of blanks only.
is_valid_trimmed(s) == \E i \in 1..Len(s) : s[i] # " "

\* SearchTerm::is_valid
is_valid(s) == Len(s) # 0

\* SearchTerm::parse
parse(s) == IF is_valid(s) THEN Some(to_ascii_lowercase(s)) ELSE None

\* Mutant: the text searched is not lowercased.
matches_case_sensitive(term, text) == contains(text, term.str)

\* SearchTerm::matches, on the display string of its argument.
matches(term, text) == contains(to_ascii_lowercase(text), term.str)

\* ------------------------------------------------------------------ trees
\* JsonPointerSegment
KeySeg(k) == [tag |-> "Key", key |-> k, idx |-> 0]
IndexSeg(n) == [tag |-> "Index", key |-> << >>, idx |-> n]

Digits == << "0","1","2","3","4","5","6","7","8","9" >>

\* Decimal text of a natural number, as usize's Display.
RECURSIVE DecimalText(_)
DecimalText(n) ==
    IF n < 10 THEN << Digits[n + 1] >>
    ELSE Append(DecimalText(n \div 10), Digits[(n % 10) + 1])

\* JsonPointerSegment's Display: the key itself, or the index in decimal.
SegmentToString(seg) ==
    IF seg.tag = "Key" THEN seg.key ELSE DecimalText(seg.idx)

\* JsonTreeValue::Base(_, display_value, _)
Base(d) == [kind |-> "Base", display |-> d, type |-> "None", entries |-> << >>]

\* JsonTreeValue::Expandable(entries, expandable_type)
Expandable(t, es) == [kind |-> "Expandable", display |-> << >>, type |-> t, entries |-> es]

Entry(p, v) == [property |-> p, val |-> v]

\* An object with the given keys and values, in order.
Obj(ks, vs) == Expandable("Object", [i \in 1..Len(ks) |-> Entry(KeySeg(ks[i]), vs[i])])

\* An array with the given elements; its segments are the indices 0, 1, ...
Arr(vs) == Expandable("Array", [i \in 1..Len(vs) |-> Entry(IndexSeg(i - 1), vs[i])])

\* ToJsonTreeValue::is_expandable
is_expandable(node) == node.kind = "Expandable"

\* -------------------------------------------------------------- the inputs
\* The callers' make_persistent_id is a parameter of find_matching_paths_in.
\* Two are modelled: an injective one (the path itself is the identifier) and a
\* colliding one (only the last segment counts, so paths ending alike collide).
make_persistent_id(path) ==
    IF idInjective THEN path
    ELSE IF Len(path) = 0 THEN << >> ELSE << path[Len(path)] >>

\* Keys of a generated object, by position: "a", "B1", "k2", "k3", ...
KeyAt(i) ==
    IF i = 1 THEN << "a" >>
    ELSE IF i = 2 THEN << "B", "1" >>
    ELSE << "k" >> \o DecimalText(i - 1)

GenLeaves == { Base(<< "1" >>), Base(<< "A", "b" >>) }

\* Every tree of exactly n nodes whose containers are non-empty, and every
\* sequence of such trees of m nodes in all.
RECURSIVE TreesOfSize(_), ForestsOfSize(_)
ForestsOfSize(m) ==
    IF m = 0 THEN { << >> }
    ELSE UNION { { << t >> \o f : t \in TreesOfSize(k), f \in ForestsOfSize(m - k) }
                 : k \in 1..m }
TreesOfSize(n) ==
    IF n = 1 THEN GenLeaves
    ELSE UNION { { Obj([i \in 1..Len(f) |-> KeyAt(i)], f), Arr(f) }
                 : f \in ForestsOfSize(n - 1) }

GenTrees == UNION { TreesOfSize(n) : n \in 1..MaxNodes }

S_foo == << "f", "o", "o" >>
S_bar == << "b", "a", "r" >>
S_baz == << "b", "a", "z" >>
S_qux == << "q", "u", "x" >>
S_thud == << "t", "h", "u", "d" >>
S_a_b == << "a", "/", "b" >>
S_m_n == << "m", "~", "n" >>
S_grep == << "g", "r", "e", "p" >>
S_false == << "f", "a", "l", "s", "e" >>
S_null == << "n", "u", "l", "l" >>
S_Greetings == << "G", "r", "e", "e", "t", "i", "n", "g", "s", "!" >>
Num(d) == Base(<< d >>)

\* {"foo": 1, "bar": 2}
FooBarTree == Obj(<< S_foo, S_bar >>, << Num("1"), Num("2") >>)

\* {"a": [1, 2, {"b": 3}]}
NestedTree ==
    Obj(<< << "a" >> >>,
        << Arr(<< Num("1"), Num("2"), Obj(<< << "b" >> >>, << Num("3") >>) >>) >>)

\* {"foo": [1, 2, [3]],
\*  "bar": {"qux": false, "thud": {"a/b": [4, 5, {"m~n": "Greetings!"}]}, "grep": 21},
\*  "baz": null}
\* the value of test_search_populates_all_collapsing_state_ids_in_response.
ScenarioTree ==
    Obj(<< S_foo, S_bar, S_baz >>,
        << Arr(<< Num("1"), Num("2"), Arr(<< Num("3") >>) >>),
           Obj(<< S_qux, S_thud, S_grep >>,
               << Base(S_false),
                  Obj(<< S_a_b >>,
                      << Arr(<< Num("4"), Num("5"),
                                Obj(<< S_m_n >>, << Base(S_Greetings) >>) >>) >>),
                  Base(<< "2", "1" >>) >>),
           Base(S_null) >>)

\* {} and [] and {"a": [], "B1": {}}
EmptyTrees ==
    { Obj(<< >>, << >>), Arr(<< >>),
      Obj(<< KeyAt(1), KeyAt(2) >>, << Arr(<< >>), Obj(<< >>, << >>) >>) }

ExampleTrees == { FooBarTree, NestedTree, ScenarioTree } \cup EmptyTrees

GenTerms == { << "A" >>, << "1" >> }
ExampleTerms == { S_foo, << "g" >>, << "2" >> }

\* -------------------------------------------------------------- traversal
Frame(node, path) == [value |-> node, idx |-> 0, called |-> FALSE, entry |-> path]

Top == stack[Len(stack)]
Pop(seq) == SubSeq(seq, 1, Len(seq) - 1)

\* Mutant: only the immediate parent's id is inserted.
update_matches_parent_only(path, ids) ==
    IF Len(path) = 0 THEN ids
    ELSE ids \cup { make_persistent_id(SubSeq(path, 1, Len(path) - 1)) }

\* Mutant: the range runs to the full path, 0..=len.
update_matches_inclusive(path, ids) ==
    ids \cup { make_persistent_id(SubSeq(path, 1, i)) : i \in 0..Len(path) }

\* update_matches: for i in 0..len, insert the id of path[0..i].
update_matches(path, ids) ==
    ids \cup { make_persistent_id(SubSeq(path, 1, i)) : i \in 0..(Len(path) - 1) }

Init ==
    /\ \/ value \in GenTrees /\ search_str \in GenTerms
       \/ value \in ExampleTrees /\ search_str \in GenTerms \cup ExampleTerms
    /\ other = << >>
    /\ matched = FALSE
    /\ search_term = parse(search_str)
    /\ abbreviate_root \in BOOLEAN
    /\ idInjective \in BOOLEAN
    /\ reset_in \in { {}, { make_persistent_id(<< KeySeg(KeyAt(1)) >>) } }
    /\ reset_path_ids = reset_in
    /\ path_segments = << >>
    /\ search_match_path_ids = {}
    /\ stack = << >>
    /\ result = {}
    /\ pc = "call"

\* find_matching_paths_in, up to its call of search_impl.
Call ==
    /\ pc = "call"
    /\ search_match_path_ids' = {}
    /\ path_segments' = << >>
    /\ stack' = << Frame(value, << >>) >>
    /\ pc' = "search"
    /\ UNCHANGED << value, search_str, other, search_term, matched, abbreviate_root,
                    idInjective, reset_in, reset_path_ids, result >>

\* search_impl on a Base: match the display value, and return.
VisitBase ==
    /\ pc = "search" /\ stack # << >>
    /\ Top.value.kind = "Base"
    /\ search_match_path_ids' =
         IF matches(search_term, Top.value.display)
         THEN update_matches(path_segments, search_match_path_ids)
         ELSE search_match_path_ids
    /\ stack' = Pop(stack)
    /\ UNCHANGED << value, search_str, other, search_term, matched, abbreviate_root,
                    idInjective, reset_in, reset_path_ids, path_segments, result, pc >>

\* Mutant: the reset id is recorded for every entry, leaves included.
ResetAfterEntry_always(e, path) == reset_path_ids \cup { make_persistent_id(path) }

\* The reset-id step of one loop iteration: only for an expandable child.
ResetAfterEntry(e, path) ==
    IF is_expandable(e.val)
    THEN reset_path_ids \cup { make_persistent_id(path) }
    ELSE reset_path_ids

\* Mutant: the key test applies to array indices too.
KeyMatches_any_container(expandable_type, property) ==
    matches(search_term, SegmentToString(property))

\* The condition of the key match: only in an object.
KeyMatches(expandable_type, property) ==
    expandable_type = "Object" /\ matches(search_term, SegmentToString(property))

\* search_impl on an Expandable, one loop iteration up to the recursive call:
\* push the segment, record the reset id, match the key, call search_impl.
EnterEntry ==
    /\ pc = "search" /\ stack # << >>
    /\ Top.value.kind = "Expandable"
    /\ ~Top.called
    /\ Top.idx < Len(Top.value.entries)
    /\ LET e == Top.value.entries[Top.idx + 1]
           path == Append(path_segments, e.property)
       IN /\ path_segments' = path
          /\ reset_path_ids' = ResetAfterEntry(e, path)
          /\ search_match_path_ids' =
               IF KeyMatches(Top.value.type, e.property)
               THEN update_matches(path, search_match_path_ids)
               ELSE search_match_path_ids
          /\ stack' = Append([stack EXCEPT ![Len(stack)].called = TRUE],
                             Frame(e.val, path))
    /\ UNCHANGED << value, search_str, other, search_term, matched, abbreviate_root,
                    idInjective, reset_in, result, pc >>

\* Mutant: the segment is not popped after the recursive call.
PathAfterReturn_no_pop(path) == path

\* path_segments.pop()
PathAfterReturn(path) == Pop(path)

\* The recursive call has returned: pop the segment, go to the next entry.
ReturnPop ==
    /\ pc = "search" /\ stack # << >>
    /\ Top.called
    /\ path_segments' = PathAfterReturn(path_segments)
    /\ stack' = [stack EXCEPT ![Len(stack)].called = FALSE,
                              ![Len(stack)].idx = @ + 1]
    /\ UNCHANGED << value, search_str, other, search_term, matched, abbreviate_root,
                    idInjective, reset_in, reset_path_ids, search_match_path_ids,
                    result, pc >>

\* search_impl on an Expandable: the loop is over, return.
LoopDone ==
    /\ pc = "search" /\ stack # << >>
    /\ Top.value.kind = "Expandable"
    /\ ~Top.called
    /\ Top.idx = Len(Top.value.entries)
    /\ stack' = Pop(stack)
    /\ UNCHANGED << value, search_str, other, search_term, matched, abbreviate_root,
                    idInjective, reset_in, reset_path_ids, path_segments,
                    search_match_path_ids, result, pc >>

\* Mutant: the set is never cleared.
TieBreak_never(abbreviate, ids) == ids

\* The tie-break of find_matching_paths_in.
TieBreak(abbreviate, ids) ==
    IF ~abbreviate /\ Cardinality(ids) = 1 THEN {} ELSE ids

\* find_matching_paths_in, after search_impl has returned.
Finish ==
    /\ pc = "search" /\ stack = << >>
    /\ result' = TieBreak(abbreviate_root, search_match_path_ids)
    /\ pc' = "done"
    /\ UNCHANGED << value, search_str, other, search_term, matched, abbreviate_root,
                    idInjective, reset_in, reset_path_ids, path_segments,
                    search_match_path_ids, stack >>

Next == Call \/ VisitBase \/ EnterEntry \/ ReturnPop \/ LoopDone \/ Finish

Spec == Init /\ [][Next]_vars


\* ------------------------------------------------- SearchTerm on its own
\* The characters strings are drawn from: letters of both cases, a blank,
\* and one non-ASCII letter (which the ASCII conversions leave alone).
Alphabet == { "a", "A", "b", " ", "e_acute" }

Strings(n) == UNION { [1..k -> Alphabet] : k \in 0..n }

TermInit ==
    /\ search_str \in Strings(MaxStrLen)
    /\ other \in Strings(MaxStrLen)
    /\ search_term = None
    /\ matched = FALSE
    /\ value = Base(<< >>)
    /\ abbreviate_root = FALSE
    /\ idInjective = TRUE
    /\ reset_in = {}
    /\ reset_path_ids = {}
    /\ path_segments = << >>
    /\ search_match_path_ids = {}
    /\ stack = << >>
    /\ result = {}
    /\ pc = "parse"

\* SearchTerm::parse(search_str)
ParseTerm ==
    /\ pc = "parse"
    /\ search_term' = parse(search_str)
    /\ pc' = "parsed"
    /\ UNCHANGED << value, search_str, other, matched, abbreviate_root, idInjective,
                    reset_in, reset_path_ids, path_segments, search_match_path_ids,
                    stack, result >>

\* term.matches(other), for the term parse gave.
MatchTerm ==
    /\ pc = "parsed"
    /\ search_term.some
    /\ matched' = matches(search_term, other)
    /\ pc' = "matched"
    /\ UNCHANGED << value, search_str, other, search_term, abbreviate_root,
                    idInjective, reset_in, reset_path_ids, path_segments,
                    search_match_path_ids, stack, result >>

TermNext == ParseTerm \/ MatchTerm

TermSpec == TermInit /\ [][TermNext]_vars

\* ------------------------------------------- vocabulary of the properties
\* Every path of the tree below `node`, each prefixed by `prefix`.
RECURSIVE PathsFrom(_, _)
PathsFrom(node, prefix) ==
    { prefix } \cup
    UNION { PathsFrom(node.entries[i].val, Append(prefix, node.entries[i].property))
            : i \in 1..Len(node.entries) }

AllPaths == PathsFrom(value, << >>)

\* The node a path leads to.
RECURSIVE NodeAt(_, _)
NodeAt(node, path) ==
    IF path = << >> THEN node
    ELSE LET i == CHOOSE j \in 1..Len(node.entries) : node.entries[j].property = path[1]
         IN NodeAt(node.entries[i].val, Tail(path))

Prefix(path, i) == SubSeq(path, 1, i)
ParentOf(path) == NodeAt(value, Prefix(path, Len(path) - 1))

\* `pat` is a contiguous substring of `text`.
HasSubstring(text, pat) ==
    \E i \in 1..(Len(text) - Len(pat) + 1) : SubSeq(text, i, i + Len(pat) - 1) = pat

\* The lowercased text contains the stored term.
TermIn(text) == HasSubstring(to_ascii_lowercase(text), search_term.str)

\* Paths of the Base leaves whose display value contains the term.
LeafMatchPaths ==
    { P \in AllPaths : NodeAt(value, P).kind = "Base" /\ TermIn(NodeAt(value, P).display) }

\* Paths of the entries of objects whose key contains the term.
KeyMatchPaths ==
    { P \in AllPaths : /\ P # << >>
                       /\ ParentOf(P).type = "Object"
                       /\ TermIn(SegmentToString(P[Len(P)])) }

\* Paths of the entries of arrays whose index text contains the term.
IndexTextPaths ==
    { P \in AllPaths : /\ P # << >>
                       /\ ParentOf(P).type = "Array"
                       /\ TermIn(SegmentToString(P[Len(P)])) }

MatchPaths == LeafMatchPaths \cup KeyMatchPaths

\* Non-empty paths of the Expandable nodes, and paths of the Base leaves.
ExpandablePaths ==
    { P \in AllPaths : P # << >> /\ NodeAt(value, P).kind = "Expandable" }
BasePaths == { P \in AllPaths : NodeAt(value, P).kind = "Base" }

ProperPrefixIds(P) == { make_persistent_id(Prefix(P, i)) : i \in 0..(Len(P) - 1) }

RootId == make_persistent_id(<< >>)

\* The segments of the entries the active calls are in: the route from the
\* root to the entry being visited.
TruePath ==
    LET n == Cardinality({ k \in 1..Len(stack) : stack[k].called })
    IN [k \in 1..n |-> stack[k].value.entries[stack[k].idx + 1].property]

\* ------------------------------------------------------------ properties

\* C1 (as stated): when a leaf at path P matches and abbreviate_root is true,
\* the returned set holds the id of every prefix of P of length 0 through
\* len(P) inclusive, the full path P among them.
C1_AncestorClosureInclusive ==
    (pc = "done" /\ abbreviate_root) =>
        \A P \in LeafMatchPaths :
            \A i \in 0..Len(P) : make_persistent_id(Prefix(P, i)) \in result

\* C1 (amended): when a leaf at path P matches and abbreviate_root is true, the
\* returned set holds the id of every proper prefix of P, of length 0 through
\* len(P) - 1; the id of the full path P is not inserted (with an injective
\* make_persistent_id it is not in the set).
C1_AncestorClosure ==
    (pc = "done" /\ abbreviate_root) =>
        \A P \in LeafMatchPaths :
            /\ \A i \in 0..(Len(P) - 1) : make_persistent_id(Prefix(P, i)) \in result
            /\ idInjective => make_persistent_id(P) \notin result

C1_Witness ==
    /\ pc = "done" /\ abbreviate_root /\ idInjective
    /\ \E P \in LeafMatchPaths :
          /\ Len(P) >= 3
          /\ ProperPrefixIds(P) \subseteq result
          /\ P \notin result

\* C2: a root object whose only match is one top-level key with a scalar value
\* ({"foo": 1, "bar": 2} with term "foo" is one): the returned set is empty when
\* abbreviate_root is false, and is exactly the root's id when it is true.
C2_SingleTopLevelSuppression ==
    ( /\ pc = "done"
      /\ value.type = "Object"
      /\ LeafMatchPaths = {}
      /\ Cardinality(KeyMatchPaths) = 1
      /\ \A P \in KeyMatchPaths : Len(P) = 1 /\ NodeAt(value, P).kind = "Base" )
    => result = IF abbreviate_root THEN { RootId } ELSE {}

C2_Witness ==
    /\ pc = "done"
    /\ value = FooBarTree /\ search_str = S_foo
    /\ KeyMatchPaths = { << KeySeg(S_foo) >> } /\ LeafMatchPaths = {}
    /\ ~abbreviate_root
    /\ search_match_path_ids = { RootId }
    /\ result = {}

\* The top-level entries of the root that match, by key or by scalar value.
TopLevelMatches == { P \in MatchPaths : Len(P) = 1 }
NestedMatches == { P \in MatchPaths : Len(P) >= 2 }

\* C3 (as stated): with abbreviate_root false and an injective id, two or more
\* matching top-level entries and no nested match give a non-empty result, and
\* the accumulated set has one member only for a single lone top-level match.
C3_MultipleTopLevelNotSuppressed ==
    (pc = "done" /\ ~abbreviate_root /\ idInjective) =>
        /\ (Cardinality(TopLevelMatches) >= 2 /\ NestedMatches = {}) => result # {}
        /\ Cardinality(search_match_path_ids) = 1 => Cardinality(TopLevelMatches) = 1

\* C3 (amended): with an injective id the accumulated set has exactly one
\* member, the root's id, exactly when one or more top-level entries match and
\* nothing nested matches; so with abbreviate_root false the tie-break
\* suppresses any number of top-level-only matches: the result is empty.
C3_TopLevelOnlySuppressed ==
    (pc = "done" /\ idInjective) =>
        /\ Cardinality(search_match_path_ids) = 1
             <=> (TopLevelMatches # {} /\ NestedMatches = {})
        /\ (TopLevelMatches # {} /\ NestedMatches = {}) =>
             /\ search_match_path_ids = { RootId }
             /\ ~abbreviate_root => result = {}

C3_Witness ==
    /\ pc = "done" /\ ~abbreviate_root /\ idInjective
    /\ Cardinality(TopLevelMatches) >= 2
    /\ NestedMatches = {}
    /\ search_match_path_ids = { RootId }
    /\ result = {}

\* C4: array indices are never matched against the term, only object keys and
\* display values are: the accumulated set is what the matching leaves and the
\* matching object keys contribute, whatever the index texts contain.
C4_ArrayIndexExemption ==
    pc = "done" =>
        /\ search_match_path_ids = UNION { ProperPrefixIds(P) : P \in MatchPaths }
        /\ MatchPaths = {} => search_match_path_ids = {}

C4_Witness ==
    /\ pc = "done"
    /\ value.type = "Array"
    /\ \E P \in IndexTextPaths : Len(P) = 1 /\ NodeAt(value, P).kind = "Base"
    /\ MatchPaths = {}
    /\ search_match_path_ids = {}

\* C5: after the call reset_path_ids is its prior contents plus the id of every
\* non-empty path to an Expandable node, whatever the term matches; it gains no
\* id of a Base leaf path; {"a": [1, 2, {"b": 3}]} gains the ids of ["a"] and
\* ["a", 2] and nothing else.
C5_ResetIdCompleteness ==
    pc = "done" =>
        /\ reset_path_ids = reset_in \cup { make_persistent_id(P) : P \in ExpandablePaths }
        /\ idInjective =>
             \A P \in BasePaths :
                 make_persistent_id(P) \in reset_path_ids => make_persistent_id(P) \in reset_in
        /\ value = NestedTree =>
             reset_path_ids = reset_in \cup
                 { make_persistent_id(<< KeySeg(<< "a" >>) >>),
                   make_persistent_id(<< KeySeg(<< "a" >>), IndexSeg(2) >>) }

C5_Witness ==
    /\ pc = "done"
    /\ value = NestedTree
    /\ MatchPaths = {}
    /\ reset_in = {}
    /\ idInjective
    /\ reset_path_ids = { << KeySeg(<< "a" >>) >>, << KeySeg(<< "a" >>), IndexSeg(2) >> }

ScenarioRun ==
    /\ pc = "done"
    /\ value = ScenarioTree
    /\ search_str = << "g" >>
    /\ abbreviate_root
    /\ idInjective

P_bar == << KeySeg(S_bar) >>
P_bar_grep == << KeySeg(S_bar), KeySeg(S_grep) >>
P_bar_thud == << KeySeg(S_bar), KeySeg(S_thud) >>
P_bar_thud_ab == << KeySeg(S_bar), KeySeg(S_thud), KeySeg(S_a_b) >>
P_bar_thud_ab_2 == << KeySeg(S_bar), KeySeg(S_thud), KeySeg(S_a_b), IndexSeg(2) >>
P_bar_thud_ab_2_mn ==
    << KeySeg(S_bar), KeySeg(S_thud), KeySeg(S_a_b), IndexSeg(2), KeySeg(S_m_n) >>

\* C6 (as stated): in the end-to-end scenario the returned set is exactly the
\* seven ids of [], ["bar"], ["bar","grep"], ["bar","thud"], ["bar","thud","a/b"],
\* ["bar","thud","a/b",2] and ["bar","thud","a/b",2,"m~n"].
C6_ScenarioSevenIds ==
    ScenarioRun =>
        result = { << >>, P_bar, P_bar_grep, P_bar_thud, P_bar_thud_ab,
                   P_bar_thud_ab_2, P_bar_thud_ab_2_mn }

\* C6 (amended): in the end-to-end scenario the returned set is exactly the five
\* ids of [], ["bar"], ["bar","thud"], ["bar","thud","a/b"] and
\* ["bar","thud","a/b",2]: the containers on the way to the two matches, not the
\* matching entries ["bar","grep"] and ["bar","thud","a/b",2,"m~n"] themselves.
C6_ScenarioFiveIds ==
    ScenarioRun =>
        result = { << >>, P_bar, P_bar_thud, P_bar_thud_ab, P_bar_thud_ab_2 }

C6_Witness ==
    /\ ScenarioRun
    /\ MatchPaths = { P_bar_grep, P_bar_thud_ab_2_mn }
    /\ Cardinality(result) = 5

\* C7: parse yields no term for the empty string, and for every other string
\* (blank ones included) a term storing the string with its ASCII letters
\* lowercased; no term stores the empty string.
C7_TermValidity ==
    /\ pc \in { "parsed", "matched" } =>
         IF Len(search_str) = 0
         THEN ~search_term.some
         ELSE /\ search_term.some
              /\ Len(search_term.str) = Len(search_str)
              /\ \A i \in 1..Len(search_str) :
                     search_term.str[i] =
                         IF \E j \in 1..26 : AsciiUpperLetters[j] = search_str[i]
                         THEN AsciiLowerLetters[CHOOSE j \in 1..26 : AsciiUpperLetters[j] = search_str[i]]
                         ELSE search_str[i]
    /\ search_term.some => Len(search_term.str) > 0

C7_Witness ==
    /\ pc = "parsed"
    /\ search_str = << " ", " " >>
    /\ search_term = Some(<< " ", " " >>)

\* C8: parse(s).matches(t) equals parse(upper(s)).matches(lower(t)) (the ASCII
\* conversions), and matches(t) holds exactly when the ASCII-lowercased t
\* contains the stored term as a contiguous substring.
C8_CaseInsensitivity ==
    pc = "matched" =>
        /\ matched = matches(parse(to_ascii_uppercase(search_str)), to_ascii_lowercase(other))
        /\ matched <=> HasSubstring(to_ascii_lowercase(other), search_term.str)
        /\ search_term.str = to_ascii_lowercase(to_ascii_uppercase(search_str))

C8_Witness ==
    /\ pc = "matched"
    /\ matched
    /\ Len(search_str) = 2
    /\ search_str # to_ascii_lowercase(search_str)
    /\ search_str # to_ascii_uppercase(search_str)
    /\ other # to_ascii_lowercase(other)

\* C9: throughout the traversal the path buffer is the sequence of segments
\* from the root to the entry being visited; a call of search_impl that is
\* running (and so one that returns) has the path it was entered with, leading
\* to the node it visits; the top-level call ends with the empty path.
C9_PathDiscipline ==
    /\ pc = "search" => path_segments = TruePath
    /\ (pc = "search" /\ stack # << >> /\ ~Top.called) =>
           /\ path_segments = Top.entry
           /\ NodeAt(value, path_segments) = Top.value
    /\ (pc \in { "search", "done" } /\ stack = << >>) => path_segments = << >>

C9_Witness ==
    /\ pc = "search"
    /\ Len(stack) >= 3
    /\ ~Top.called
    /\ Top.idx >= 1
    /\ Len(path_segments) = Len(stack) - 1
    /\ path_segments = Top.entry

\* C10: every id in the returned set is the id of a path to an Expandable node
\* (with an injective id, of no Base leaf path); a non-empty returned set holds
\* the root's id, and every other member is in reset_path_ids after the call.
C10_OnlyExpandableIds ==
    pc = "done" =>
        /\ result # {} => RootId \in result
        /\ \A x \in result :
             /\ \E P \in AllPaths :
                    NodeAt(value, P).kind = "Expandable" /\ make_persistent_id(P) = x
             /\ x # RootId => x \in reset_path_ids
             /\ idInjective => \A P \in BasePaths : make_persistent_id(P) # x

C10_Witness ==
    /\ pc = "done"
    /\ idInjective
    /\ Cardinality(result) >= 3
    /\ result \subseteq ({ << >> } \cup ExpandablePaths)
    /\ LeafMatchPaths # {}

====
